---- MODULE Spec2Model ----
(***************************************************************************)
(* Model of SupportAgentMetricGPT/main.py: the Streamlit dashboard script. *)
(* Every user interaction of a session re-executes the script top to       *)
(* bottom in that session's own thread: it loads users.json, checks the    *)
(* agent directory, evaluates the sidebar forms, passes the login gate,    *)
(* computes the visible agents and the filters and possibly runs a report. *)
(* The credential file and the error log are shared by all sessions.       *)
(***************************************************************************)
EXTENDS Integers, Sequences, FiniteSets, TLC

(* ---------------------------- bounds ----------------------------------- *)
MaxLog == 2

\* Two browser sessions, each with its own script thread.
Sessions == {1, 2}

(* ---------------------- values of the script --------------------------- *)
\* An email is a sequence of tokens, so that endswith is a real suffix test.
Mail(local, org) == <<local, "@", org, ".com">>

E_S1 == Mail("s1", "fetchrewards")
E_S2 == Mail("s2", "fetchrewards")
E_ADM == Mail("z.thomson", "fetchrewards")
E_ADM2 == Mail("b.johnson", "fetchrewards")
E_C == Mail("carol", "fetchrewards")
E_X == Mail("mallory", "other")

\* Emails typed into the forms.
InputEmails == {E_S1, E_ADM, E_C, E_X}
Passwords == {"alpha", "bravo"}

ADMIN_EMAILS == {E_ADM, E_ADM2}

DomainSuffix == <<"@", "fetchrewards", ".com">>

EndsWith(s, suffix) ==
    /\ Len(s) >= Len(suffix)
    /\ SubSeq(s, Len(s) - Len(suffix) + 1, Len(s)) = suffix

\* sha256(pw).hexdigest(): a digest is a tagged value, distinct per password.
hash_pw(pw) == <<"sha256", pw>>

NoUsers == [e \in {} |-> [hash |-> <<>>]]
UserRecord(pw) == [hash |-> hash_pw(pw)]

\* Orders used by sorted().
AgentOrder == <<"Alice", "Bob">>
EmailOrder == <<E_ADM, E_C, E_S1, E_S2>>

Range(f) == {f[i] : i \in DOMAIN f}

(* ------------------------------ state ---------------------------------- *)
VARIABLES
    credFile,        \* users.json: [state, data]
    dirFile,         \* EMAIL_TO_AGENTS.json: [exists, data]
    users,           \* per session: the users mapping of the run in progress
    session_state,   \* per session: st.session_state
    log,             \* error_agent_data.log: sequence of [code]
    pc,              \* per session: position of the current script run
    out              \* the last completed run: its inputs, what it displayed,
                     \* and the users mapping it held when it ended

vars == <<credFile, dirFile, users, session_state, log, pc, out>>

EmptySession == [keys |-> {}, email |-> <<>>, just_signed_up |-> FALSE]

\* lines 53-54: the timestamp and the free text of the line are not kept
log_error(lg, code) == Append(lg, [code |-> code])

FileOk(data) == [state |-> "ok", data |-> data]

InitCredFiles ==
    { [state |-> "absent", data |-> NoUsers],
      [state |-> "corrupt", data |-> NoUsers],
      FileOk((E_S1 :> UserRecord("alpha")) @@ (E_C :> UserRecord("bravo"))) }

InitDirFiles ==
    { [exists |-> FALSE, data |-> <<>>],
      [exists |-> TRUE, data |-> (E_S1 :> <<"Alice">>) @@ (E_S2 :> <<"Bob">>)],
      [exists |-> TRUE, data |-> (E_S1 :> <<>>)] }

NoOut ==
    [sess |-> 0, btn |-> "none", email |-> <<>>, pw |-> "", pw2 |-> "",
     msg |-> "none", stage |-> "init", visible |-> <<>>, selected |-> {},
     report |-> "none", users |-> NoUsers]

Init ==
    /\ credFile \in InitCredFiles
    /\ dirFile \in InitDirFiles
    /\ users = [s \in Sessions |-> NoUsers]
    /\ session_state = [s \in Sessions |-> EmptySession]
    /\ log = <<>>
    /\ pc = [s \in Sessions |-> "idle"]
    /\ out = NoOut

(* --------------------------- Load users -------------------------------- *)
\* line 59: os.path.exists(CREDENTIALS_FILE)
Begin(s) ==
    /\ pc[s] = "idle"
    /\ pc' = [pc EXCEPT ![s] = IF credFile.state = "absent" THEN "create" ELSE "read"]
    /\ UNCHANGED <<credFile, dirFile, users, session_state, log, out>>

\* lines 60-61: open(..., "w"); json.dump({}, f)
CreateFile(s) ==
    /\ pc[s] = "create"
    /\ credFile' = FileOk(NoUsers)
    /\ pc' = [pc EXCEPT ![s] = "read"]
    /\ UNCHANGED <<dirFile, users, session_state, log, out>>

\* lines 62-66: json.load, a JSONDecodeError gives {}
LoadedUsers(file) == IF file.state = "ok" THEN file.data ELSE NoUsers

ReadFile(s) ==
    /\ pc[s] = "read"
    /\ users' = [users EXCEPT ![s] = LoadedUsers(credFile)]
    /\ pc' = [pc EXCEPT ![s] = "run"]
    /\ UNCHANGED <<credFile, dirFile, session_state, log, out>>

(* ----------------------- Load agent mappings --------------------------- *)
\* Mutation: the existence check of line 69 is left out.
DirectoryMissing_Never == FALSE

\* line 69: not os.path.exists(EMAIL_TO_AGENTS_FILE)
DirectoryMissing == ~dirFile.exists

\* lines 73-74
EMAIL_TO_AGENTS == dirFile.data

SortedAgents(S) == SelectSeq(AgentOrder, LAMBDA a : a \in S)

\* line 76
ALL_SUPERVISORS == SelectSeq(EmailOrder, LAMBDA e : e \in DOMAIN EMAIL_TO_AGENTS)

\* line 77
ALL_AGENTS ==
    SortedAgents(UNION {Range(EMAIL_TO_AGENTS[e]) : e \in DOMAIN EMAIL_TO_AGENTS})

\* lines 70-72: st.error, log_error("E9001", ...), st.stop()
MissingDirectory(s) ==
    /\ pc[s] = "run"
    /\ DirectoryMissing
    /\ Len(log) < MaxLog
    /\ log' = log_error(log, "E9001")
    /\ out' = [NoOut EXCEPT !.sess = s, !.msg = "E9001", !.stage = "nodirectory",
                             !.users = users[s]]
    /\ users' = [users EXCEPT ![s] = NoUsers]
    /\ pc' = [pc EXCEPT ![s] = "idle"]
    /\ UNCHANGED <<credFile, dirFile, session_state>>

(* ------------------------- Login + Signup ------------------------------ *)
\* Mutation: line 91 without the comparison of the hashes.
LoginOk_NoHashCheck(email, pw, us) == email \in DOMAIN us

\* line 91
LoginOk(email, pw, us) ==
    /\ email \in DOMAIN us
    /\ hash_pw(pw) = us[email].hash

\* Mutation: the checks of lines 105 and 107 in the other order.
RegistrationResult_SwappedChecks(email, pw1, pw2, us) ==
    IF ~EndsWith(email, DomainSuffix) THEN "E1002"
    ELSE IF email \in DOMAIN us THEN "E1004"
    ELSE IF pw1 # pw2 THEN "E1003"
    ELSE IF email \notin DOMAIN EMAIL_TO_AGENTS /\ email \notin ADMIN_EMAILS THEN "E2001"
    ELSE "created"

\* Mutation: the check of line 107 is left out.
RegistrationResult_NoExistsCheck(email, pw1, pw2, us) ==
    IF ~EndsWith(email, DomainSuffix) THEN "E1002"
    ELSE IF pw1 # pw2 THEN "E1003"
    ELSE IF email \notin DOMAIN EMAIL_TO_AGENTS /\ email \notin ADMIN_EMAILS THEN "E2001"
    ELSE "created"

\* lines 103-111: the message of the Create Account handler
RegistrationResult(email, pw1, pw2, us) ==
    IF ~EndsWith(email, DomainSuffix) THEN "E1002"
    ELSE IF pw1 # pw2 THEN "E1003"
    ELSE IF email \in DOMAIN us THEN "E1004"
    ELSE IF email \notin DOMAIN EMAIL_TO_AGENTS /\ email \notin ADMIN_EMAILS THEN "E2001"
    ELSE "created"

\* line 112
WithRecord(us, email, pw) ==
    [e \in DOMAIN us \cup {email} |-> IF e = email THEN UserRecord(pw) ELSE us[e]]

(* ------------------ the script from line 118 to the end ---------------- *)
\* line 128
IS_ADMIN(email) == email \in ADMIN_EMAILS

\* Mutation: lines 130-131 are left out.
agent_list_NoAdminFallback(email) ==
    IF email \in DOMAIN EMAIL_TO_AGENTS THEN EMAIL_TO_AGENTS[email] ELSE <<>>

\* lines 129-131
agent_list(email) ==
    LET own == IF email \in DOMAIN EMAIL_TO_AGENTS THEN EMAIL_TO_AGENTS[email] ELSE <<>>
    IN  IF IS_ADMIN(email) /\ own = <<>> THEN ALL_AGENTS ELSE own

\* lines 157-159
filtered_agents(selected_supervisors) ==
    SortedAgents(UNION {Range(EMAIL_TO_AGENTS[sup]) :
                        sup \in DOMAIN EMAIL_TO_AGENTS \cap selected_supervisors})

\* line 118: "logged_in" not in st.session_state
NotLoggedIn(ss) == "logged_in" \notin ss.keys

\* Mutation: line 123 deleting the login keys only.
Cleared_LoginKeysOnly(ss) == [ss EXCEPT !.keys = @ \ {"logged_in", "email"}, !.email = <<>>]

\* line 123: st.session_state.clear()
Cleared(ss) == EmptySession

\* line 132: not agent_list
NoAgentsMapped(visible) == visible = <<>>

\* Mutation: lines 161-163 are left out.
NoSelection_Never(selected_agents) == FALSE

\* line 161: not selected_agents
NoSelection(selected_agents) == selected_agents = {}

\* line 142: st.session_state.get("just_signed_up")
JustSignedUp(ss) == "just_signed_up" \in ss.keys /\ ss.just_signed_up

Halt(ss, lg, stage, visible) ==
    [ss |-> ss, log |-> lg, stage |-> stage, visible |-> visible,
     selected |-> {}, report |-> "none"]

\* lines 118-220; the result is the session state, the log and what was done
MainPage(ss, lg, btn, selected_agents, outcome) ==
    IF NotLoggedIn(ss) THEN Halt(ss, lg, "gate", <<>>)
    ELSE IF btn = "LogOut" THEN Halt(Cleared(ss), lg, "logout", <<>>)
    ELSE LET email == ss.email
             visible == agent_list(email)
             ss2 == IF JustSignedUp(ss) THEN [ss EXCEPT !.just_signed_up = FALSE] ELSE ss
         IN  IF NoAgentsMapped(visible)
             THEN Halt(ss, log_error(lg, "E2001"), "noagents", visible)
             ELSE IF NoSelection(selected_agents)
             THEN Halt(ss2, lg, "noselection", visible)
             ELSE IF btn # "RunReport"
             THEN Halt(ss2, lg, "ready", visible)
             ELSE [ss |-> ss2,
                   log |-> IF outcome = "fail"
                           THEN log_error(lg, "E9999") ELSE lg,
                   stage |-> "report", visible |-> visible,
                   selected |-> selected_agents, report |-> outcome]

ReportOutcomes == {"ok", "nodata", "fail"}

\* The selections the two multiselects (lines 156 and 160) can return: any
\* supervisors out of ALL_SUPERVISORS, then any of the filtered_agents.
Selections ==
    UNION {SUBSET Range(filtered_agents(sups)) : sups \in SUBSET Range(ALL_SUPERVISORS)}

\* What lines 118-220 can do after the sidebar forms, over every setting of
\* the filters and every answer of the external services.
MainPageResults(ss, lg, btn) ==
    {MainPage(ss, lg, btn, selected_agents, outcome) :
        selected_agents \in Selections,
        outcome \in IF btn = "RunReport" THEN ReportOutcomes ELSE {"none"}}

\* The rest of a run after the sidebar forms: us1, ss1 and lg1 are the users
\* mapping, the session state and the log the forms leave behind.
Complete(s, btn, email, pw, pw2, msg, us1, ss1, lg1) ==
    \E t \in MainPageResults(ss1, lg1, btn) :
        /\ Len(t.log) <= MaxLog
        /\ session_state' = [session_state EXCEPT ![s] = t.ss]
        /\ log' = t.log
        /\ out' = [sess |-> s, btn |-> btn, email |-> email, pw |-> pw,
                   pw2 |-> pw2, msg |-> msg, stage |-> t.stage,
                   visible |-> t.visible, selected |-> t.selected,
                   report |-> t.report, users |-> us1]
        /\ users' = [users EXCEPT ![s] = NoUsers]
        /\ pc' = [pc EXCEPT ![s] = "idle"]

\* lines 90-96
LogIn(s) ==
    /\ pc[s] = "run"
    /\ ~DirectoryMissing
    /\ \E email \in InputEmails, pw \in Passwords :
         IF LoginOk(email, pw, users[s])
         THEN Complete(s, "LogIn", email, pw, "", "none", users[s],
                       [session_state[s] EXCEPT !.keys = @ \cup {"logged_in", "email"},
                                                !.email = email],
                       log)
         ELSE Complete(s, "LogIn", email, pw, "", "E1001", users[s], session_state[s],
                       log_error(log, "E1001"))
    /\ UNCHANGED <<credFile, dirFile>>

\* lines 102-116
CreateAccount(s) ==
    /\ pc[s] = "run"
    /\ ~DirectoryMissing
    /\ \E email \in InputEmails, pw1 \in Passwords, pw2 \in Passwords :
         LET msg == RegistrationResult(email, pw1, pw2, users[s])
         IN  IF msg = "created"
             THEN /\ credFile' = FileOk(WithRecord(users[s], email, pw1))
                  /\ Complete(s, "CreateAccount", email, pw1, pw2, msg,
                              WithRecord(users[s], email, pw1),
                              [session_state[s] EXCEPT
                                  !.keys = @ \cup {"just_signed_up"},
                                  !.just_signed_up = TRUE],
                              log)
             ELSE /\ UNCHANGED credFile
                  /\ Complete(s, "CreateAccount", email, pw1, pw2, msg, users[s],
                              session_state[s], log)
    /\ UNCHANGED dirFile

\* lines 122-125
LogOut(s) ==
    /\ pc[s] = "run"
    /\ ~DirectoryMissing
    /\ Complete(s, "LogOut", <<>>, "", "", "none", users[s], session_state[s], log)
    /\ UNCHANGED <<credFile, dirFile>>

\* lines 167-220
RunReport(s) ==
    /\ pc[s] = "run"
    /\ ~DirectoryMissing
    /\ Complete(s, "RunReport", <<>>, "", "", "none", users[s], session_state[s], log)
    /\ UNCHANGED <<credFile, dirFile>>

\* a rerun caused by a widget other than a button (a filter change)
Rerun(s) ==
    /\ pc[s] = "run"
    /\ ~DirectoryMissing
    /\ Complete(s, "none", <<>>, "", "", "none", users[s], session_state[s], log)
    /\ UNCHANGED <<credFile, dirFile>>

\* One session in use: its runs follow one another.
InUse == {1}

Next ==
    \E s \in InUse :
        \/ Begin(s)
        \/ CreateFile(s)
        \/ ReadFile(s)
        \/ MissingDirectory(s)
        \/ LogIn(s)
        \/ CreateAccount(s)
        \/ LogOut(s)
        \/ RunReport(s)
        \/ Rerun(s)

Spec == Init /\ [][Next]_vars

\* Both sessions in use, each loading the store and registering accounts;
\* their script threads interleave between the steps of a run.
NextRace ==
    \E s \in Sessions :
        \/ Begin(s)
        \/ CreateFile(s)
        \/ ReadFile(s)
        \/ MissingDirectory(s)
        \/ CreateAccount(s)

SpecRace == Init /\ [][NextRace]_vars

(* ============================== claims ================================= *)
\* A step in which session s finishes a run of the script.
Ran(s) == pc[s] = "run" /\ pc'[s] = "idle"

Authenticated(ss) == "logged_in" \in ss.keys

Records(file) == IF file.state = "ok" THEN DOMAIN file.data ELSE {}

CountCode(lg, code) == Cardinality({i \in DOMAIN lg : lg[i].code = code})

\* The directory's own list for an email and the agents of all supervisors.
OwnList(e) == IF e \in DOMAIN dirFile.data THEN dirFile.data[e] ELSE <<>>
Universe == UNION {Range(dirFile.data[e]) : e \in DOMAIN dirFile.data}

\* The four rejection conditions of a registration request against a store.
BadDomain(e) == ~EndsWith(e, DomainSuffix)
Unmapped(e) == e \notin DOMAIN dirFile.data /\ e \notin ADMIN_EMAILS

\* C1: a registration request is rejected iff the email lacks the domain
\* suffix, the passwords differ, the email already has a record, or the email
\* is neither a directory key nor an admin; the reported error is the first of
\* these in that order; otherwise email -> hash(password) is inserted and the
\* whole store is written to the credential file.
C1_Registration ==
    [][\A s \in Sessions :
        (Ran(s) /\ out'.btn = "CreateAccount") =>
            LET e == out'.email
                bad == BadDomain(e)
                differ == out'.pw # out'.pw2
                exists == e \in DOMAIN users[s]
                unmapped == Unmapped(e)
                rejected == out'.msg \in {"E1002", "E1003", "E1004", "E2001"}
            IN  /\ rejected <=> (bad \/ differ \/ exists \/ unmapped)
                /\ bad => out'.msg = "E1002"
                /\ (~bad /\ differ) => out'.msg = "E1003"
                /\ (~bad /\ ~differ /\ exists) => out'.msg = "E1004"
                /\ (~bad /\ ~differ /\ ~exists /\ unmapped) => out'.msg = "E2001"
                /\ ~rejected =>
                      /\ out'.msg = "created"
                      /\ DOMAIN out'.users = DOMAIN users[s] \cup {e}
                      /\ out'.users[e] = [hash |-> hash_pw(out'.pw)]
                      /\ \A o \in DOMAIN users[s] : out'.users[o] = users[s][o]
                      /\ credFile' = [state |-> "ok", data |-> out'.users]
      ]_vars

\* C1 witness: a request with differing passwords for an email that already
\* has a record was answered with PasswordMismatch.
C1_Witness ==
    /\ out.btn = "CreateAccount"
    /\ out.msg = "E1003"
    /\ out.email \in DOMAIN out.users

\* C2: a login succeeds iff the store holds a record for the email and the
\* stored hash equals the hash of the supplied password; otherwise the
\* session is left as it was and InvalidCredentials is reported.
C2_Login ==
    [][\A s \in Sessions :
        (Ran(s) /\ out'.btn = "LogIn") =>
            LET e == out'.email
                match == e \in DOMAIN users[s] /\ users[s][e].hash = hash_pw(out'.pw)
                success == /\ out'.msg = "none"
                           /\ Authenticated(session_state'[s])
                           /\ session_state'[s].email = e
                failure == /\ out'.msg = "E1001"
                           /\ session_state'[s] = session_state[s]
            IN  /\ success <=> match
                /\ failure <=> ~match
      ]_vars

\* C2 witness: a login for an email that has a record was refused because
\* the password's hash differs from the stored one.
C2_Witness ==
    /\ out.btn = "LogIn"
    /\ out.msg = "E1001"
    /\ out.email \in DOMAIN out.users

\* C3: for a logged-in email the visible agents are the directory's list when
\* it is non-empty; when it is empty or absent and the email is an admin, all
\* agents of all supervisors; when still empty, NoAgentsMapped is signalled
\* (E2001 logged) and nothing later in the run happens.
C3_VisibleAgents ==
    [][\A s \in Sessions :
        (Ran(s) /\ Authenticated(session_state'[s])) =>
            LET e == session_state'[s].email
                own == OwnList(e)
                admin == e \in ADMIN_EMAILS
                none == own = <<>> /\ (~admin \/ Universe = {})
            IN  /\ own # <<>> => out'.visible = own
                /\ (own = <<>> /\ admin) => Range(out'.visible) = Universe
                /\ none <=> out'.stage = "noagents"
                /\ none =>
                      /\ out'.visible = <<>>
                      /\ Len(log') >= 1 /\ log'[Len(log')].code = "E2001"
                      /\ out'.report = "none"
                      /\ out'.selected = {}
                      /\ JustSignedUp(session_state[s]) => JustSignedUp(session_state'[s])
      ]_vars

\* C3 witness: an admin without a list of their own sees every agent.
C3_Witness ==
    /\ out.sess \in Sessions
    /\ Authenticated(session_state[out.sess])
    /\ session_state[out.sess].email = E_ADM
    /\ out.visible = <<"Alice", "Bob">>

\* C4: whenever a report is run, the agents it is run for are a subset of the
\* caller's visible agents.
C4_SelectionWithinVisible ==
    out.stage = "report" => out.selected \subseteq Range(out.visible)

\* C5: a session becomes Authenticated only by a login whose credentials
\* match the store; a failed login and every registration outcome leave an
\* Anonymous session Anonymous; a session leaves Authenticated only by
\* logout, after which no session key remains.
C5_SessionStateMachine ==
    [][\A s \in Sessions :
        LET before == Authenticated(session_state[s])
            after == Authenticated(session_state'[s])
            match == /\ out'.email \in DOMAIN users[s]
                     /\ users[s][out'.email].hash = hash_pw(out'.pw)
        IN  /\ (~before /\ after) =>
                  /\ Ran(s) /\ out'.btn = "LogIn" /\ match
                  /\ session_state'[s].email = out'.email
            /\ (~before /\ Ran(s) /\ out'.btn = "LogIn" /\ ~match) => ~after
            /\ (~before /\ Ran(s) /\ out'.btn = "CreateAccount") => ~after
            /\ (before /\ ~after) => (Ran(s) /\ out'.btn = "LogOut")
            /\ (before /\ Ran(s) /\ out'.btn = "LogOut") => session_state'[s].keys = {}
      ]_vars

\* C5 witness: a session that had logged in has logged out.
C5_Witness ==
    /\ out.sess \in Sessions
    /\ out.btn = "LogOut"
    /\ out.stage = "logout"
    /\ session_state[out.sess].keys = {}

\* C6: the report pipeline is invoked only for an Authenticated session with
\* a non-empty visible agent set and a non-empty selection; an Anonymous
\* session, a session halted with NoAgentsMapped and a run with no agent
\* selected never reach it, and an empty selection leaves the session
\* Authenticated.
C6_Gate ==
    /\ (out.stage = "report" \/ out.report # "none") =>
          /\ out.sess \in Sessions
          /\ out.btn = "RunReport"
          /\ Authenticated(session_state[out.sess])
          /\ LET e == session_state[out.sess].email
             IN  OwnList(e) # <<>> \/ (e \in ADMIN_EMAILS /\ Universe # {})
          /\ out.selected # {}
    /\ out.stage = "noselection" =>
          /\ Authenticated(session_state[out.sess])
          /\ "email" \in session_state[out.sess].keys
    /\ \A s \in Sessions : ~Authenticated(session_state[s]) => out.sess # s \/ out.report = "none"

\* C6 witness: a report was run for an Authenticated session.
C6_Witness ==
    /\ out.stage = "report"
    /\ out.report = "ok"
    /\ out.selected # {}

\* C7: every email present in the persisted store stays present with the
\* same hash, whatever the interleaving of the sessions' load and
\* registration steps.
C7_RecordsKept ==
    [][\A e \in Records(credFile) :
          /\ e \in Records(credFile')
          /\ credFile'.data[e] = credFile.data[e]]_vars

\* C8: when the directory file is absent, every run logs the
\* missing-directory code and halts before the forms: no session becomes
\* Authenticated, no credential record is created and no report runs.
C8_MissingDirectoryFatal ==
    [][~dirFile.exists =>
          /\ \A s \in Sessions :
                /\ ~Authenticated(session_state'[s])
                /\ Ran(s) =>
                      /\ log' = Append(log, [code |-> "E9001"])
                      /\ out'.stage = "nodirectory"
          /\ Records(credFile') = Records(credFile)
          /\ out'.report = "none"
      ]_vars

\* C8 witness: a run stopped at the missing directory.
C8_Witness ==
    /\ ~dirFile.exists
    /\ out.stage = "nodirectory"
    /\ Len(log) >= 1

\* C9: every Unmapped rejection, at registration as well as after login,
\* appends exactly one entry with the unmapped-identity code in that step.
C9_UnmappedLogged ==
    [][\A s \in Sessions :
        (Ran(s) /\ (out'.msg = "E2001" \/ out'.stage = "noagents")) =>
            CountCode(log', "E2001") = CountCode(log, "E2001") + 1
      ]_vars

\* C10 as stated: a registration rejected with InvalidDomain,
\* PasswordMismatch or AlreadyExists leaves the in-memory mapping, the
\* credential file, the error log and the session state unchanged; only a
\* successful registration writes the store and sets the just-registered
\* flag, and it does not make the session Authenticated.
C10_RejectedChangesNothing ==
    [][\A s \in Sessions :
        (Ran(s) /\ out'.btn = "CreateAccount") =>
            LET e == out'.email
                rejected == BadDomain(e) \/ out'.pw # out'.pw2 \/ e \in DOMAIN users[s]
            IN  /\ rejected =>
                      /\ out'.users = users[s]
                      /\ credFile' = credFile
                      /\ log' = log
                      /\ session_state'[s] = session_state[s]
                /\ (credFile' # credFile \/ (JustSignedUp(session_state'[s])
                                             /\ ~JustSignedUp(session_state[s])))
                      => out'.msg = "created"
                /\ out'.msg = "created" =>
                      /\ credFile' = [state |-> "ok", data |-> out'.users]
                      /\ Authenticated(session_state'[s]) = Authenticated(session_state[s])
      ]_vars

\* C10 amended: as above, except that the error log is unchanged only up to
\* the E2001 entry that every run of a session that is logged in with no
\* visible agents appends.
C10_RejectedChangesNothingButRerunLog ==
    [][\A s \in Sessions :
        (Ran(s) /\ out'.btn = "CreateAccount") =>
            LET e == out'.email
                rejected == BadDomain(e) \/ out'.pw # out'.pw2 \/ e \in DOMAIN users[s]
                noagents == /\ Authenticated(session_state[s])
                            /\ OwnList(session_state[s].email) = <<>>
                            /\ (session_state[s].email \in ADMIN_EMAILS => Universe = {})
            IN  /\ rejected =>
                      /\ out'.users = users[s]
                      /\ credFile' = credFile
                      /\ log' = IF noagents THEN Append(log, [code |-> "E2001"]) ELSE log
                      /\ session_state'[s] = session_state[s]
                /\ (credFile' # credFile \/ (JustSignedUp(session_state'[s])
                                             /\ ~JustSignedUp(session_state[s])))
                      => out'.msg = "created"
                /\ out'.msg = "created" =>
                      /\ credFile' = [state |-> "ok", data |-> out'.users]
                      /\ Authenticated(session_state'[s]) = Authenticated(session_state[s])
      ]_vars

\* C10 witness: a session logged in with no visible agents had a
\* registration rejected for its domain.
C10_Witness ==
    /\ out.btn = "CreateAccount"
    /\ out.msg = "E1002"
    /\ out.stage = "noagents"

====
